---- MODULE Spec2Model ----
(***************************************************************************)
(* Model of the Xiaomi Yi camera controller component (src/src/App.tsx).   *)
(*                                                                         *)
(* The React state of the component is the state of the machine.  Every    *)
(* handler runs synchronously up to its first `await fetch(...)`; the      *)
(* fetch is then a request in flight (an element of `pending`) and the     *)
(* rest of the handler is a continuation that runs atomically when the     *)
(* response arrives.  A continuation sees the values its closure captured  *)
(* when the handler was called (cameraInfo.ip, isConnected) and the        *)
(* current state only through functional updaters (prev => ...).           *)
(*                                                                         *)
(* `await response.json()` is a second suspension of connectToCamera; the  *)
(* code after it reads no state, so running it together with the arrival   *)
(* of the response produces the same states.                               *)
(*                                                                         *)
(* Specifications:                                                         *)
(*   Spec          the handlers as the rendered buttons allow them         *)
(*   SpecAPI       the handlers called in any state (their own guards)     *)
(*   SpecSettings  Spec with the settings panel                            *)
(*   SpecUpdate    the settings onChange handlers called with any value    *)
(*   SpecInfo      connect and disconnect, the device answering any body   *)
(*   SpecScanFair  the connection controls, scan probes settling fairly    *)
(***************************************************************************)
EXTENDS Integers, Sequences, FiniteSets, Bags, TLC

VARIABLES
    isConnected,    \* useState(false)
    isScanning,     \* useState(false)
    isRecording,    \* useState(false)
    cameraInfo,     \* useState<CameraInfo | null>(null): <<>> or <<info>>
    cameraIP,       \* useState("192.168.42.1")
    streamUrl,      \* useState("")
    error,          \* useState("")
    settings,       \* useState<CameraSettings>
    videoSrc,       \* videoRef.current.src (NoUrl when no <video> is mounted)
    pending,        \* bag of fetch()/play() promises not yet settled
    ev              \* history: what the last step was

vars == <<isConnected, isScanning, isRecording, cameraInfo, cameraIP,
          streamUrl, error, settings, videoSrc, pending, ev>>

----------------------------------------------------------------------------
(* Bounds *)

MaxInflight == 2        \* requests in flight at the same time, in Spec
MaxInflightAPI == 1     \* requests in flight at the same time, in SpecAPI
MaxInflightSettings == 1 \* requests in flight at the same time, in SpecSettings
MaxInflightScan == 2    \* requests in flight at the same time, in SpecScanFair

----------------------------------------------------------------------------
(* Values *)

NULL == <<>>
Some(x) == <<x>>

commonIPs == <<"192.168.42.1", "192.168.1.100", "192.168.0.100">>

\* what the user can type into the address field
TypedIPs == {"192.168.42.1", "192.168.1.100"}

DefaultModel == "Xiaomi Yi Camera"
DefaultFirmware == "1.4.13"
DefaultBattery == 85

ErrNone == ""
ErrConnect == "Failed to connect to camera. Please check IP address and network connection."
ErrLive == "Live stream not available in demo mode"
ErrNoCameras == "No Xiaomi Yi cameras found on network"
ErrLiveView == "Failed to start live view"
ErrStartRecording == "Failed to start recording"
ErrStopRecording == "Failed to stop recording"

NoUrl == [host |-> "", port |-> 0, path |-> ""]
LiveUrl(ip) == [host |-> ip, port |-> 8080, path |-> "live"]

ResolutionOptions == {"3840x2160", "1920x1080", "1280x720", "640x480"}
QualityOptions == {"high", "medium", "low"}
ModeOptions == {"video", "photo", "timelapse"}

InitialSettings == [resolution |-> "1920x1080", quality |-> "high", mode |-> "video"]

\* JSON bodies a device answers GET /camera-info with; `has` lists the
\* fields that are present in the body
InfoBodies ==
    { [has |-> {}, model |-> "", firmware |-> "", battery |-> 0],
      [has |-> {"model", "battery"}, model |-> "Yi4K", firmware |-> "", battery |-> 70] }

\* the bodies a response that settled with `out` can carry (only a 2xx
\* response is parsed)
BodiesOf(out) == IF out = "ok" THEN InfoBodies ELSE {[has |-> {}, model |-> "", firmware |-> "", battery |-> 0]}

\* the bodies with every subset of the fields present, a present battery
\* being 0 or 70
AllInfoBodies ==
    { [has |-> h,
       model |-> IF "model" \in h THEN "Yi4K" ELSE "",
       firmware |-> IF "firmware" \in h THEN "2.0" ELSE "",
       battery |-> IF "battery" \in h THEN b ELSE 0] :
         h \in SUBSET {"model", "firmware", "battery"}, b \in {0, 70} }

\* the bodies, out of `bodies`, a response that settled with `out` can carry
AnyBodyOf(bodies, out) ==
    IF out = "ok" THEN bodies ELSE {[has |-> {}, model |-> "", firmware |-> "", battery |-> 0]}

\* how a fetch() settles: 2xx status, other status, rejected promise
Outcomes == {"ok", "status", "reject"}
\* GET /camera-info can also answer 2xx with a body response.json() throws on
InfoOutcomes == Outcomes \cup {"malformed"}

\* JavaScript `x || d` on a field of the parsed body
OrStr(info, f, d) == IF f \notin info.has \/ info[f] = "" THEN d ELSE info[f]
OrNum(info, f, d) == IF f \notin info.has \/ info[f] = 0 THEN d ELSE info[f]

\* the object literal passed to setCameraInfo in connectToCamera
MakeCameraInfo(ip, info) ==
    [ ip |-> ip,
      model |-> OrStr(info, "model", DefaultModel),
      firmware |-> OrStr(info, "firmware", DefaultFirmware),
      battery |-> OrNum(info, "battery", DefaultBattery),
      status |-> "connected" ]

\* the updater that spreads prev and loses the new status
WithStatus_keepsStatus(prev, s) == prev

\* the updater without its null test: { ...null, status: s } is an object
WithStatus_noNullTest(prev, s) ==
    IF prev # NULL THEN Some([prev[1] EXCEPT !.status = s])
    ELSE Some([ip |-> "", model |-> "", firmware |-> "", battery |-> 0, status |-> s])

\* prev => prev ? { ...prev, status: s } : null
WithStatus(prev, s) == IF prev # NULL THEN Some([prev[1] EXCEPT !.status = s]) ELSE NULL

----------------------------------------------------------------------------
(* Requests in flight *)

\* kind: "info" (connect button), "scan" (probe of a scan), "preview",
\*       "start", "stop", "play"
\* ip:   the address captured by the closure, for the requests whose
\*       continuation uses it ("" for the others)
\* idx:  scan: position of the probed candidate in commonIPs;
\*       start, stop: history, position of the command in issue order
\*       among the record commands in flight
\* log:  history, the probes of this scan that settled so far (scan only)
\* conn: isConnected as captured by the scanForCameras closure (scan only)
\* cancelled: history; info, scan: a disconnect happened while the request
\*       was in flight; start, stop: a record command issued later has
\*       already settled and taken effect
Req(kind, ip, idx, conn) ==
    [kind |-> kind, ip |-> ip, idx |-> idx, conn |-> conn, log |-> <<>>,
     cancelled |-> FALSE]

\* a step that issues a request is taken only while the bound allows it
Room(limit) == BagCardinality(pending') <= limit

Issue(r) == pending (+) SetToBag({r})
Settle(r) == pending (-) SetToBag({r})
Replace(r, n) == (pending (-) SetToBag({r})) (+) SetToBag({n})

IsConnectReq(r) == r.kind \in {"info", "scan"}

MarkCancelled(r) == IF IsConnectReq(r) THEN [r EXCEPT !.cancelled = TRUE] ELSE r

\* the bag with every connect/scan request marked as overtaken by a disconnect
CancelAll(B) ==
    LET S == {MarkCancelled(r) : r \in BagToSet(B)}
    IN  [s \in S |->
            CopiesIn(s, B)
            + (IF IsConnectReq(s)
               THEN CopiesIn([s EXCEPT !.cancelled = FALSE], B)
               ELSE 0)]

IsRecordCommand(r) == r.kind \in {"start", "stop"}

\* a record command enters the bag behind the record commands in flight
IssueCommand(kind) ==
    Issue(Req(kind, "", Cardinality({q \in BagToSet(pending) : IsRecordCommand(q)}) + 1, FALSE))

\* a record command in flight after command r settled: the ones issued after
\* r move up; the ones issued before r have been overtaken when r took
\* effect
Overtaken(q, r, applied) ==
    IF ~IsRecordCommand(q) THEN q
    ELSE IF q.idx > r.idx THEN [q EXCEPT !.idx = q.idx - 1]
    ELSE IF applied THEN [q EXCEPT !.cancelled = TRUE]
    ELSE q

\* the bag after record command r settled, having taken effect or not
SettleCommand(r, applied) ==
    LET B == Settle(r)
    IN  [s \in {Overtaken(q, r, applied) : q \in BagToSet(B)} |->
            IF IsRecordCommand(s) THEN 1 ELSE CopiesIn(s, B)]

\* the label of a step: the handler or continuation that ran, and how its
\* request settled
Step(op, out) == [op |-> op, out |-> out]

----------------------------------------------------------------------------
Init ==
    /\ isConnected = FALSE
    /\ isScanning = FALSE
    /\ isRecording = FALSE
    /\ cameraInfo = NULL
    /\ cameraIP = "192.168.42.1"
    /\ streamUrl = NoUrl
    /\ error = ErrNone
    /\ settings = InitialSettings
    /\ videoSrc = NoUrl
    /\ pending = EmptyBag
    /\ ev = Step("init", "")

----------------------------------------------------------------------------
(* connectToCamera *)

\* connectToCamera(ip) up to `await fetch`
connectToCamera(ip) ==
    /\ error' = ErrNone
    /\ pending' = Issue(Req("info", ip, 0, FALSE))
    /\ ev' = Step("connect", "")
    /\ UNCHANGED <<isConnected, isScanning, isRecording, cameraInfo, cameraIP,
                   streamUrl, settings, videoSrc>>

\* the `if (response.ok)` block of connectToCamera for a request to `ip`
connectEffect(ip, out, body) ==
    IF out = "ok"
    THEN /\ cameraInfo' = Some(MakeCameraInfo(ip, body))
         /\ isConnected' = TRUE
         /\ streamUrl' = LiveUrl(ip)
    ELSE UNCHANGED <<cameraInfo, isConnected, streamUrl>>

\* the value of `error` after connectToCamera settled with `out`
ErrAfterConnect(out, e) == IF out \in {"reject", "malformed"} THEN ErrConnect ELSE e

\* the rest of connectToCamera when called from the Connect button, the
\* device answering with one of `bodies`
connectToCameraSettled(bodies) ==
    \E r \in BagToSet(pending), out \in InfoOutcomes : \E body \in AnyBodyOf(bodies, out) :
        /\ r.kind = "info"
        /\ connectEffect(r.ip, out, body)
        /\ error' = ErrAfterConnect(out, error)
        /\ pending' = Settle(r)
        /\ ev' = Step("connectDone", out)
        /\ UNCHANGED <<isScanning, isRecording, cameraIP, settings, videoSrc>>

connectToCameraDone == connectToCameraSettled(InfoBodies)

----------------------------------------------------------------------------
(* scanForCameras *)

\* scanForCameras up to the first `await connectToCamera(ip)`
scanForCameras ==
    /\ isScanning' = TRUE
    /\ error' = ErrNone
    /\ pending' = Issue(Req("scan", commonIPs[1], 1, isConnected))
    /\ ev' = Step("scan", "")
    /\ UNCHANGED <<isConnected, isRecording, cameraInfo, cameraIP, streamUrl,
                   settings, videoSrc>>

\* the loop without its `break`
NextCandidate_noBreak(r, out) ==
    IF r.idx < Len(commonIPs) THEN r.idx + 1 ELSE 0

\* the index of the candidate the loop turns to after probe r settled with
\* `out`, 0 when the loop ends
NextCandidate(r, out) ==
    IF out = "ok" THEN 0
    ELSE IF r.idx < Len(commonIPs) THEN r.idx + 1
    ELSE 0

\* the code after the loop: `if (!isConnected) setError(...)` with the
\* isConnected of the render the scan was started from
ErrAfterScan(r, e) == IF ~r.conn THEN ErrNoCameras ELSE e

\* the scan with `return` in place of `break`: a scan that found a device
\* skips setIsScanning(false)
scanProbeDone_returnsWhenFound ==
    \E r \in BagToSet(pending), out \in InfoOutcomes : \E body \in BodiesOf(out) :
        /\ r.kind = "scan"
        /\ connectEffect(r.ip, out, body)
        /\ LET n == NextCandidate(r, out)
               logged == Append(r.log, [ip |-> r.ip, ok |-> (out = "ok")])
           IN  IF n # 0
               THEN /\ error' = ErrNone
                    /\ pending' = Replace(r, [r EXCEPT !.ip = commonIPs[n],
                                                       !.idx = n,
                                                       !.log = logged])
                    /\ ev' = Step("scanNext", out)
                    /\ UNCHANGED <<isScanning, cameraIP>>
               ELSE /\ cameraIP' = IF out = "ok" THEN r.ip ELSE cameraIP
                    /\ error' = IF out = "ok" THEN error ELSE ErrAfterScan(r, ErrAfterConnect(out, error))
                    /\ isScanning' = (out = "ok" /\ isScanning)
                    /\ pending' = Settle(r)
                    /\ ev' = Step(IF out = "ok" THEN "scanFound" ELSE "scanNotFound", out)
        /\ UNCHANGED <<isRecording, settings, videoSrc>>

\* one probe of a scan settles: the rest of connectToCamera, then the loop
\* of scanForCameras up to its next await or to its end
scanProbeDone ==
    \E r \in BagToSet(pending), out \in InfoOutcomes : \E body \in BodiesOf(out) :
        /\ r.kind = "scan"
        /\ connectEffect(r.ip, out, body)
        /\ LET n == NextCandidate(r, out)
               logged == Append(r.log, [ip |-> r.ip, ok |-> (out = "ok")])
           IN  IF n # 0
               THEN /\ error' = ErrNone
                    /\ pending' = Replace(r, [r EXCEPT !.ip = commonIPs[n],
                                                       !.idx = n,
                                                       !.log = logged])
                    /\ ev' = Step("scanNext", out)
                    /\ UNCHANGED <<isScanning, cameraIP>>
               ELSE /\ cameraIP' = IF out = "ok" THEN r.ip ELSE cameraIP
                    /\ error' = ErrAfterScan(r, ErrAfterConnect(out, error))
                    /\ isScanning' = FALSE
                    /\ pending' = Settle(r)
                    /\ ev' = Step(IF out = "ok" THEN "scanFound" ELSE "scanNotFound", out)
        /\ UNCHANGED <<isRecording, settings, videoSrc>>

----------------------------------------------------------------------------
(* startLiveView, stopLiveView *)

\* videoRef.current is the <video> element, rendered only while isConnected
VideoMounted == isConnected

startLiveView ==
    IF cameraInfo = NULL
    THEN /\ ev' = Step("startLiveView", "ignored")
         /\ UNCHANGED <<isConnected, isScanning, isRecording, cameraInfo,
                        cameraIP, streamUrl, error, settings, videoSrc, pending>>
    ELSE /\ pending' = Issue(Req("preview", cameraInfo[1].ip, 0, FALSE))
         /\ ev' = Step("startLiveView", "")
         /\ UNCHANGED <<isConnected, isScanning, isRecording, cameraInfo,
                        cameraIP, streamUrl, error, settings, videoSrc>>

\* response.ok of a command whose fetch has `.catch(() => ({ ok: true }))`
CommandOk(out) == out \in {"ok", "reject"}

startLiveViewDone ==
    \E r \in BagToSet(pending), out \in Outcomes :
        /\ r.kind = "preview"
        /\ IF CommandOk(out) /\ VideoMounted
           THEN /\ videoSrc' = LiveUrl(r.ip)
                /\ pending' = Replace(r, Req("play", "", 0, FALSE))
           ELSE /\ videoSrc' = videoSrc
                /\ pending' = Settle(r)
        /\ ev' = Step("startLiveViewDone", out)
        /\ UNCHANGED <<isConnected, isScanning, isRecording, cameraInfo,
                       cameraIP, streamUrl, error, settings>>

\* videoRef.current.play() settles
playDone ==
    \E r \in BagToSet(pending), rejected \in BOOLEAN :
        /\ r.kind = "play"
        /\ error' = IF rejected THEN ErrLive ELSE error
        /\ pending' = Settle(r)
        /\ ev' = Step("playDone", IF rejected THEN "reject" ELSE "ok")
        /\ UNCHANGED <<isConnected, isScanning, isRecording, cameraInfo,
                       cameraIP, streamUrl, settings, videoSrc>>

\* the assignment stopLiveView makes to videoRef.current.src
StoppedVideo == NoUrl

stopLiveView ==
    /\ videoSrc' = IF VideoMounted THEN StoppedVideo ELSE videoSrc
    /\ ev' = Step("stopLiveView", "")
    /\ UNCHANGED <<isConnected, isScanning, isRecording, cameraInfo, cameraIP,
                   streamUrl, error, settings, pending>>

----------------------------------------------------------------------------
(* startRecording, stopRecording *)

\* startRecording testing the wrong flag before it sends the request
startRecording_wrongGuard ==
    IF isRecording
    THEN /\ ev' = Step("startRecording", "ignored")
         /\ UNCHANGED <<isConnected, isScanning, isRecording, cameraInfo,
                        cameraIP, streamUrl, error, settings, videoSrc, pending>>
    ELSE /\ pending' = IssueCommand("start")
         /\ ev' = Step("startRecording", "")
         /\ UNCHANGED <<isConnected, isScanning, isRecording, cameraInfo,
                        cameraIP, streamUrl, error, settings, videoSrc>>

startRecording ==
    IF cameraInfo = NULL
    THEN /\ ev' = Step("startRecording", "ignored")
         /\ UNCHANGED <<isConnected, isScanning, isRecording, cameraInfo,
                        cameraIP, streamUrl, error, settings, videoSrc, pending>>
    ELSE /\ pending' = IssueCommand("start")
         /\ ev' = Step("startRecording", "")
         /\ UNCHANGED <<isConnected, isScanning, isRecording, cameraInfo,
                        cameraIP, streamUrl, error, settings, videoSrc>>

startRecordingDone ==
    \E r \in BagToSet(pending), out \in Outcomes :
        /\ r.kind = "start"
        /\ IF CommandOk(out)
           THEN /\ isRecording' = TRUE
                /\ cameraInfo' = WithStatus(cameraInfo, "recording")
           ELSE UNCHANGED <<isRecording, cameraInfo>>
        /\ pending' = SettleCommand(r, CommandOk(out))
        /\ ev' = Step("startRecordingDone", out)
        /\ UNCHANGED <<isConnected, isScanning, cameraIP, streamUrl, error,
                       settings, videoSrc>>

stopRecording ==
    IF cameraInfo = NULL
    THEN /\ ev' = Step("stopRecording", "ignored")
         /\ UNCHANGED <<isConnected, isScanning, isRecording, cameraInfo,
                        cameraIP, streamUrl, error, settings, videoSrc, pending>>
    ELSE /\ pending' = IssueCommand("stop")
         /\ ev' = Step("stopRecording", "")
         /\ UNCHANGED <<isConnected, isScanning, isRecording, cameraInfo,
                        cameraIP, streamUrl, error, settings, videoSrc>>

stopRecordingDone ==
    \E r \in BagToSet(pending), out \in Outcomes :
        /\ r.kind = "stop"
        /\ IF CommandOk(out)
           THEN /\ isRecording' = FALSE
                /\ cameraInfo' = WithStatus(cameraInfo, "connected")
           ELSE UNCHANGED <<isRecording, cameraInfo>>
        /\ pending' = SettleCommand(r, CommandOk(out))
        /\ ev' = Step("stopRecordingDone", out)
        /\ UNCHANGED <<isConnected, isScanning, cameraIP, streamUrl, error,
                       settings, videoSrc>>

----------------------------------------------------------------------------
(* disconnect *)

\* disconnect that also puts the settings back to their initial values
disconnect_resetsSettings ==
    /\ isConnected' = FALSE
    /\ cameraInfo' = NULL
    /\ isRecording' = FALSE
    /\ settings' = InitialSettings
    /\ videoSrc' = IF VideoMounted THEN StoppedVideo ELSE videoSrc
    /\ pending' = CancelAll(pending)
    /\ ev' = Step("disconnect", "")
    /\ UNCHANGED <<isScanning, cameraIP, streamUrl, error>>

\* disconnect without setIsRecording(false)
disconnect_keepsRecording ==
    /\ isConnected' = FALSE
    /\ cameraInfo' = NULL
    /\ videoSrc' = IF VideoMounted THEN StoppedVideo ELSE videoSrc
    /\ pending' = CancelAll(pending)
    /\ ev' = Step("disconnect", "")
    /\ UNCHANGED <<isRecording, isScanning, cameraIP, streamUrl, error, settings>>

disconnect ==
    /\ isConnected' = FALSE
    /\ cameraInfo' = NULL
    /\ isRecording' = FALSE
    /\ videoSrc' = IF VideoMounted THEN StoppedVideo ELSE videoSrc
    /\ pending' = CancelAll(pending)
    /\ ev' = Step("disconnect", "")
    /\ UNCHANGED <<isScanning, cameraIP, streamUrl, error, settings>>

----------------------------------------------------------------------------
(* the controls of the page *)

\* <input value={cameraIP} onChange=... disabled={isConnected}>
ChangeCameraIP ==
    /\ ~isConnected
    /\ \E ip \in TypedIPs :
        /\ ip # cameraIP
        /\ cameraIP' = ip
    /\ ev' = Step("setCameraIP", "")
    /\ UNCHANGED <<isConnected, isScanning, isRecording, cameraInfo,
                   streamUrl, error, settings, videoSrc, pending>>

ClickConnect == ~isConnected /\ connectToCamera(cameraIP) /\ Room(MaxInflight)
ClickScan == ~isConnected /\ ~isScanning /\ scanForCameras /\ Room(MaxInflight)
ClickDisconnect == isConnected /\ disconnect
ClickStartPreview == isConnected /\ startLiveView /\ Room(MaxInflight)
ClickStopPreview == isConnected /\ stopLiveView
ClickStartRecording == isConnected /\ ~isRecording /\ startRecording /\ Room(MaxInflight)
ClickStopRecording == isConnected /\ isRecording /\ stopRecording /\ Room(MaxInflight)

Next ==
    \/ ChangeCameraIP
    \/ ClickConnect
    \/ ClickScan
    \/ ClickDisconnect
    \/ ClickStartPreview
    \/ ClickStopPreview
    \/ ClickStartRecording
    \/ ClickStopRecording
    \/ connectToCameraDone
    \/ scanProbeDone
    \/ startLiveViewDone
    \/ playDone
    \/ startRecordingDone
    \/ stopRecordingDone

Spec == Init /\ [][Next]_vars

\* the handlers called in any state, as the intents of the controller
CallConnect == (\E ip \in TypedIPs : connectToCamera(ip)) /\ Room(MaxInflightAPI)
CallScan == scanForCameras /\ Room(MaxInflightAPI)
CallDisconnect == disconnect
CallStartPreview == startLiveView /\ Room(MaxInflightAPI)
CallStopPreview == stopLiveView
CallStartRecording == startRecording /\ Room(MaxInflightAPI)
CallStopRecording == stopRecording /\ Room(MaxInflightAPI)

NextAPI ==
    \/ CallConnect
    \/ CallScan
    \/ CallDisconnect
    \/ CallStartPreview
    \/ CallStopPreview
    \/ CallStartRecording
    \/ CallStopRecording
    \/ connectToCameraDone
    \/ scanProbeDone
    \/ startLiveViewDone
    \/ playDone
    \/ startRecordingDone
    \/ stopRecordingDone

SpecAPI == Init /\ [][NextAPI]_vars

----------------------------------------------------------------------------
(* the settings panel *)

\* onChange of a <select>: setSettings(prev => ({ ...prev, [field]: v }))
onChangeSetting(field, v) ==
    /\ settings' = [settings EXCEPT ![field] = v]
    /\ ev' = Step("setSettings", field)
    /\ UNCHANGED <<isConnected, isScanning, isRecording, cameraInfo, cameraIP,
                   streamUrl, error, videoSrc, pending>>

\* the options of the <select> of a field
OptionsOf(field) ==
    CASE field = "resolution" -> ResolutionOptions
      [] field = "quality" -> QualityOptions
      [] field = "mode" -> ModeOptions

SettingFields == {"resolution", "quality", "mode"}

\* the options the user picks among, two of each <select>
PickedOptions(field) ==
    OptionsOf(field) \cap {"1920x1080", "640x480", "high", "low", "video", "photo"}

\* the user picks another option in a <select>; the panel is rendered only
\* while isConnected
SelectSetting ==
    /\ isConnected
    /\ \E field \in SettingFields : \E v \in PickedOptions(field) :
        /\ v # settings[field]
        /\ onChangeSetting(field, v)

PanelConnect == ~isConnected /\ connectToCamera(cameraIP) /\ Room(MaxInflightSettings)
PanelScan == ~isConnected /\ ~isScanning /\ scanForCameras /\ Room(MaxInflightSettings)
PanelStartPreview == isConnected /\ startLiveView /\ Room(MaxInflightSettings)
PanelStartRecording == isConnected /\ ~isRecording /\ startRecording /\ Room(MaxInflightSettings)
PanelStopRecording == isConnected /\ isRecording /\ stopRecording /\ Room(MaxInflightSettings)

\* the page with its settings panel
NextSettings ==
    \/ SelectSetting
    \/ PanelConnect
    \/ PanelScan
    \/ ClickDisconnect
    \/ PanelStartPreview
    \/ ClickStopPreview
    \/ PanelStartRecording
    \/ PanelStopRecording
    \/ connectToCameraDone
    \/ scanProbeDone
    \/ startLiveViewDone
    \/ playDone
    \/ startRecordingDone
    \/ stopRecordingDone

SpecSettings == Init /\ [][NextSettings]_vars

\* values a caller can hand to the onChange handlers: the options and one
\* value outside each domain
SettingValues(field) ==
    OptionsOf(field) \cup
        (CASE field = "resolution" -> {"9999x9999"}
           [] field = "quality" -> {"ultra"}
           [] field = "mode" -> {"burst"})

\* the onChange handlers called with any value, as the updateSettings intent
CallUpdateSettings ==
    \E field \in SettingFields : \E v \in SettingValues(field) :
        onChangeSetting(field, v)

NextUpdate == CallUpdateSettings

SpecUpdate == Init /\ [][NextUpdate]_vars

\* connect and disconnect against a device that answers with any body
connectToCameraAnyBody == connectToCameraSettled(AllInfoBodies)

NextInfo ==
    \/ CallConnect
    \/ CallDisconnect
    \/ connectToCameraAnyBody

SpecInfo == Init /\ [][NextInfo]_vars

\* the connection controls alone (the record and preview commands neither
\* read nor write isScanning or the requests of a scan), every info request
\* of a scan being eventually answered or failing
ConnectWhileScanning == ~isConnected /\ connectToCamera(cameraIP) /\ Room(MaxInflightScan)
StartScan == ~isConnected /\ ~isScanning /\ scanForCameras /\ Room(MaxInflightScan)

NextScan ==
    \/ ChangeCameraIP
    \/ ConnectWhileScanning
    \/ StartScan
    \/ ClickDisconnect
    \/ connectToCameraDone
    \/ scanProbeDone

SpecScanFair == Init /\ [][NextScan]_vars /\ WF_vars(scanProbeDone)

----------------------------------------------------------------------------
(* Properties *)

\* a request of the bag that settles in the step
Settles(r) == CopiesIn(r, pending') < CopiesIn(r, pending)

\* C1: in every reachable state recording == true implies the session is
\* connected, also when a startRecording is still in flight at a disconnect.
C1_RecordingImpliesConnected == isRecording => isConnected

\* C2: in every reachable state CameraInfo is null if and only if the
\* session is disconnected (isConnected == false).
C2_InfoIffConnected == (cameraInfo = NULL) <=> ~isConnected

\* the status update of a record command that settled after a disconnect
C2_Witness ==
    /\ ev.op = "startRecordingDone"
    /\ ev.out = "ok"
    /\ cameraInfo = NULL
    /\ ~isConnected

\* C3: a disconnect from any state leaves, as its immediate post-state,
\* isConnected false, CameraInfo null and recording false, and it waits for
\* no response: the requests in flight are still in flight after it.
C3_DisconnectResets ==
    [][ev'.op = "disconnect" =>
         /\ ~isConnected'
         /\ cameraInfo' = NULL
         /\ ~isRecording'
         /\ BagCardinality(pending') = BagCardinality(pending)]_vars

\* a disconnect issued while a connect or a scan was in flight
C3_Witness ==
    /\ ev.op = "disconnect"
    /\ \E r \in BagToSet(pending) : IsConnectReq(r) /\ r.cancelled

\* C4: the completion of a connect or scan request that was in flight when
\* a disconnect was issued changes neither isConnected nor CameraInfo.
C4_CancelledDiscarded ==
    [][\A r \in BagToSet(pending) :
          (IsConnectReq(r) /\ r.cancelled /\ Settles(r))
              => (isConnected' = isConnected /\ cameraInfo' = cameraInfo)]_vars

\* C5: a record-start request that fails (rejected promise or non-success
\* status) leaves the recording flag as it was and surfaces the
\* recording-failed error.
C5_StartFailureSurfaced ==
    [][(ev'.op = "startRecordingDone" /\ ev'.out # "ok")
          => (isRecording' = isRecording /\ error' = ErrStartRecording)]_vars

\* C6: a record-stop request that fails (rejected promise or non-success
\* status) does not return the session to not-recording.
C6_StopFailureKeepsRecording ==
    [][(ev'.op = "stopRecordingDone" /\ ev'.out # "ok")
          => isRecording' = isRecording]_vars

\* the probes of a scan in flight: the candidate being probed is the one
\* after the settled ones, which are the candidates before it in list order
\* and have all failed
ProbedInOrder(r) ==
    /\ Len(r.log) < Len(commonIPs)
    /\ r.ip = commonIPs[Len(r.log) + 1]
    /\ \A i \in 1..Len(r.log) : r.log[i] = [ip |-> commonIPs[i], ok |-> FALSE]

ScanRequests == {r \in BagToSet(pending) : r.kind = "scan"}

OneProbeAtATime ==
    /\ Cardinality(ScanRequests) <= 1
    /\ \A r \in ScanRequests : CopiesIn(r, pending) = 1 /\ ProbedInOrder(r)

\* C7: a scan probes its candidates one at a time in list order, a candidate
\* only after all earlier ones failed, and when a probe succeeds the session
\* is connected to that candidate.
C7_ScanInOrder ==
    /\ []OneProbeAtATime
    /\ [][ev'.op = "scanFound" =>
            \E r \in ScanRequests :
                /\ Settles(r)
                /\ isConnected'
                /\ cameraInfo' # NULL
                /\ cameraInfo'[1].ip = r.ip
                /\ cameraIP' = r.ip]_vars

\* a scan whose first two candidates failed found the third
C7_Witness ==
    /\ ev.op = "scanFound"
    /\ cameraInfo # NULL
    /\ cameraInfo[1].ip = commonIPs[3]
    /\ cameraIP = commonIPs[3]

\* C8: when a scan ends, the no-device-found error is set exactly when every
\* candidate failed; a scan that found a device ends connected without it.
C8_NoDeviceIffAllFailed ==
    /\ ev.op = "scanFound" => (isConnected /\ error # ErrNoCameras)
    /\ ev.op = "scanNotFound" => error = ErrNoCameras

RecordOrPreviewCall(op) == op \in {"startRecording", "stopRecording", "startLiveView"}

\* C9: startRecording, stopRecording and startLiveView called while
\* disconnected change no session state and issue no request.
C9_DisconnectedCallNoEffect ==
    [][(RecordOrPreviewCall(ev'.op) /\ ~isConnected)
          => UNCHANGED <<isConnected, isScanning, isRecording, cameraInfo,
                         cameraIP, streamUrl, error, settings, videoSrc,
                         pending>>]_vars

\* startRecording was called while disconnected, a connect being in flight
C9_Witness ==
    /\ ev = Step("startRecording", "ignored")
    /\ ~isConnected
    /\ pending # EmptyBag

\* C10: an intent that is illegal in the current state (a record or preview
\* command while disconnected, stopRecording while not recording) leaves an
\* error shown to the caller.
C10_IllegalIntentSurfaced ==
    [][((RecordOrPreviewCall(ev'.op) /\ ~isConnected)
          \/ (ev'.op = "stopRecording" /\ ~isRecording))
          => error' # ErrNone]_vars

\* C12: every connect that fails (rejected promise, non-success status or
\* unparsable body) leaves the session disconnected with CameraInfo null and
\* surfaces the connection-failed error.
C12_ConnectFailureSurfaced ==
    [][(ev'.op = "connectDone" /\ ev'.out # "ok")
          => (~isConnected' /\ cameraInfo' = NULL /\ error' = ErrConnect)]_vars

\* a connect request that settles in the step with a 2xx answer
ConnectSucceeds(r) ==
    /\ r.kind = "info"
    /\ Settles(r)
    /\ ev' = Step("connectDone", "ok")

\* C13: from disconnected, a connect that succeeds yields connected with
\* CameraInfo for the requested address and status "connected"; an
\* acknowledged startRecording then yields recording with status
\* "recording"; an acknowledged stopRecording then yields not recording
\* with status "connected", the other fields of CameraInfo kept.
C13_ConnectRecordStop ==
    [][/\ \A r \in BagToSet(pending) :
            (~isConnected /\ ConnectSucceeds(r))
                => /\ isConnected'
                   /\ cameraInfo' # NULL
                   /\ cameraInfo'[1].ip = r.ip
                   /\ cameraInfo'[1].status = "connected"
       /\ (isConnected /\ ~isRecording /\ ev' = Step("startRecordingDone", "ok"))
            => /\ isConnected'
               /\ isRecording'
               /\ cameraInfo' = Some([cameraInfo[1] EXCEPT !.status = "recording"])
       /\ (isConnected /\ isRecording /\ ev' = Step("stopRecordingDone", "ok"))
            => /\ isConnected'
               /\ ~isRecording'
               /\ cameraInfo' = Some([cameraInfo[1] EXCEPT !.status = "connected"])]_vars

\* the end of the scenario: connected to 192.168.42.1 with model Yi4K and
\* battery 70, the recording stopped by an acknowledged stopRecording
C13_Witness ==
    /\ ev = Step("stopRecordingDone", "ok")
    /\ isConnected
    /\ ~isRecording
    /\ cameraInfo # NULL
    /\ cameraInfo[1].ip = "192.168.42.1"
    /\ cameraInfo[1].model = "Yi4K"
    /\ cameraInfo[1].battery = 70
    /\ cameraInfo[1].status = "connected"

\* the number of connection attempts (connect or scan requests) in flight
ConnectAttempts(B) ==
    BagCardinality([r \in {q \in BagToSet(B) : IsConnectReq(q)} |-> CopiesIn(r, B)])

\* C15: at most one connection attempt is in flight at any time, a connect
\* intent issuing no request while one is pending or the session connected.
C15_OneConnectAttempt == ConnectAttempts(pending) <= 1

\* C16: while CameraInfo is present its address does not change (the
\* address is set when the session becomes connected and kept until the
\* next disconnect).
C16_AddressImmutable ==
    [][(cameraInfo # NULL /\ cameraInfo' # NULL)
          => cameraInfo'[1].ip = cameraInfo[1].ip]_vars

\* C19: whenever CameraInfo is present, its status is "recording" exactly
\* when the recording flag is true.
C19_StatusMatchesRecording ==
    cameraInfo # NULL => ((cameraInfo[1].status = "recording") <=> isRecording)

\* C14: a record command that settles after a record command issued later
\* than it has already settled and taken effect changes neither the recording flag nor
\* CameraInfo (commands take effect in the order they were issued).
C14_IssueOrderKept ==
    [][\A r \in BagToSet(pending) :
          (/\ IsRecordCommand(r)
           /\ r.cancelled
           /\ ev'.op \in {"startRecordingDone", "stopRecordingDone"}
           /\ \E applied \in BOOLEAN : pending' = SettleCommand(r, applied))
              => (isRecording' = isRecording /\ cameraInfo' = cameraInfo)]_vars

\* a field of the body as the device reported it, d when it is missing
Reported(b, f, d) == IF f \in b.has THEN b[f] ELSE d

\* C18: after a connect that succeeded, CameraInfo holds, for some body the
\* device can answer with, every present field as reported (battery 0
\* included) and for every missing field its default: model "Unknown
\* Camera", firmware "unknown", battery 0.
C18_FieldsOrDefaults ==
    ev = Step("connectDone", "ok") =>
        /\ cameraInfo # NULL
        /\ \E b \in AllInfoBodies :
            /\ cameraInfo[1].model = Reported(b, "model", "Unknown Camera")
            /\ cameraInfo[1].firmware = Reported(b, "firmware", "unknown")
            /\ cameraInfo[1].battery = Reported(b, "battery", 0)

EnumeratedSettings ==
    /\ settings.resolution \in ResolutionOptions
    /\ settings.quality \in QualityOptions
    /\ settings.mode \in ModeOptions

\* C11: a settings update with a value outside the field's domain is
\* rejected and leaves the settings unchanged, so the settings hold only
\* enumerated values in every reachable state.
C11_OnlyEnumeratedSettings == EnumeratedSettings

\* C17: the settings change only in a step of a settings onChange handler;
\* connect, scan, preview and record commands, disconnect and every device
\* response leave them unchanged.
C17_SettingsOnlyByIntent ==
    [][settings' # settings => ev'.op = "setSettings"]_vars

\* changed settings are still there after a disconnect and a reconnect (the
\* settings can be changed only while connected, and the Connect button is
\* there only while disconnected)
C17_Witness ==
    /\ ev = Step("connectDone", "ok")
    /\ pending = EmptyBag
    /\ settings.resolution # InitialSettings.resolution
    /\ settings.mode # InitialSettings.mode

\* no candidate is probed twice by one scan
NoRetry ==
    \A r \in ScanRequests :
        Cardinality({r.log[i].ip : i \in 1..Len(r.log)} \cup {r.ip}) = Len(r.log) + 1

\* C20: when every info request settles, every scan finishes: isScanning
\* becomes false again, and no candidate is probed twice by one scan.
C20_ScanFinishes ==
    /\ isScanning ~> ~isScanning
    /\ []NoRetry

\* a scan that probed every candidate and found none has finished
C20_Witness ==
    /\ ev.op = "scanNotFound"
    /\ ~isScanning

====
